---- MODULE Spec2Model ----
(***************************************************************************)
(* Model of asedftk/__init__.py: the module-level compatibility probe,     *)
(* check_julia, dftk_version, has_compatible_dftk and install, run against *)
(* an environment made of the python 'julia' package, the Julia runtime    *)
(* behind it and the Julia package manager.                                *)
(*                                                                         *)
(* Python strings are sequences of one-character strings, so that          *)
(* str.split, slicing and concatenation are computed, not assumed.         *)
(* Python values True/False/None are the strings "True"/"False"/"None".    *)
(***************************************************************************)
EXTENDS Integers, Sequences, FiniteSets, TLC

VARIABLES
    juliaPkg,         \* the python package 'julia' is importable
    bridge,           \* "ok" | "unsupported" (loading julia.Main raises UnsupportedPythonError)
    VERSION,          \* Julia's VERSION, <<major, minor, patch>>
    dftk,             \* version of DFTK in the Julia manifest, <<>> when not installed
    json,             \* JSON is installed on the Julia side
    COMPATIBLE_DFTK,  \* module global, list of major.minor strings
    pc,               \* "start" | "loaded" | "crashed": state of `import asedftk` in this process
    all,              \* __all__
    warnings,         \* warnings emitted in this process, in order
    probe,            \* what the module-level probe saw: results of the two checks
    lastOp,           \* name, result and bridge calls of the last operation
    nLoads,           \* number of interpreter processes started so far
    nInstalls         \* number of install() calls so far

vars == <<juliaPkg, bridge, VERSION, dftk, json, COMPATIBLE_DFTK, pc, all,
          warnings, probe, lastOp, nLoads, nInstalls>>

env == <<juliaPkg, bridge, VERSION, dftk, json, COMPATIBLE_DFTK>>

\* ---------------------------------------------------------------- bounds
MaxPatch == 1
MaxLoads == 2
MaxInstalls == 2
MaxCompat == 2
MaxWarnings == 3

Majors == {0, 1}
Minors == {1, 2, 10}
JuliaVersions == {<<1, 2, 0>>, <<1, 3, 0>>, <<1, 4, 0>>}
DftkVersions == {<<ma, mi, p>> : ma \in Majors, mi \in Minors, p \in 0..MaxPatch}

\* ---------------------------------------------------------------- strings
Digit(n) ==
    CASE n = 0 -> "0" [] n = 1 -> "1" [] n = 2 -> "2" [] n = 3 -> "3"
      [] n = 4 -> "4" [] n = 5 -> "5" [] n = 6 -> "6" [] n = 7 -> "7"
      [] n = 8 -> "8" [] n = 9 -> "9"

DigitValue(c) ==
    CASE c = "0" -> 0 [] c = "1" -> 1 [] c = "2" -> 2 [] c = "3" -> 3
      [] c = "4" -> 4 [] c = "5" -> 5 [] c = "6" -> 6 [] c = "7" -> 7
      [] c = "8" -> 8 [] c = "9" -> 9

RECURSIVE Str(_)
\* decimal text of a natural number
Str(n) == IF n < 10 THEN <<Digit(n)>> ELSE Str(n \div 10) \o <<Digit(n % 10)>>

RECURSIVE ParseNat(_)
\* natural number of a decimal text
ParseNat(s) ==
    IF Len(s) = 0 THEN 0
    ELSE 10 * ParseNat(SubSeq(s, 1, Len(s) - 1)) + DigitValue(s[Len(s)])

RECURSIVE split(_, _)
\* Python str.split(sep) for a one-character separator
split(s, sep) ==
    IF \A i \in 1..Len(s) : s[i] # sep THEN <<s>>
    ELSE LET k == CHOOSE i \in 1..Len(s) :
                      s[i] = sep /\ \A j \in 1..(i - 1) : s[j] # sep
         IN  <<SubSeq(s, 1, k - 1)>> \o split(SubSeq(s, k + 1, Len(s)), sep)

\* Python seq[:n]
Take(seq, n) == SubSeq(seq, 1, IF n < Len(seq) THEN n ELSE Len(seq))

\* Python str.startswith
StartsWith(s, p) == Len(p) <= Len(s) /\ SubSeq(s, 1, Len(p)) = p

\* Julia string(::VersionNumber)
VersionString(v) == Str(v[1]) \o <<".">> \o Str(v[2]) \o <<".">> \o Str(v[3])

\* Julia v1 >= v2 on VersionNumber
VersionGE(a, b) ==
    \/ a[1] > b[1]
    \/ a[1] = b[1] /\ a[2] > b[2]
    \/ a[1] = b[1] /\ a[2] = b[2] /\ a[3] >= b[3]

MajorMinorString(ma, mi) == Str(ma) \o <<".">> \o Str(mi)

\* ---------------------------------------------------------------- results
\* What a call did: returned value (ret, or version for a string result),
\* exception that left it (exc), warnings it emitted, bridge calls it made.
Result(ret, exc, warns, trace, version) ==
    [ret |-> ret, exc |-> exc, warns |-> warns, trace |-> trace, version |-> version]

NotCalled == Result("notcalled", "none", <<>>, <<>>, <<>>)

\* Python truth value of a returned value
Truthy(ret) == ret = "True"

PyBool(b) == IF b THEN "True" ELSE "False"

\* ---------------------------------------------------------------- the bridge
\* `from julia import <Name>` for a Julia package: "ok", or the exception raised.
\* The python package missing is ModuleNotFoundError, an ImportError; a bridge
\* built for another Python raises UnsupportedPythonError while starting Julia;
\* a Julia package that is not installed is ImportError.
ImportThroughBridge(jp, br, installed) ==
    IF ~jp THEN "ImportError"
    ELSE IF br = "unsupported" THEN "UnsupportedPythonError"
    ELSE IF ~installed THEN "ImportError"
    ELSE "ok"

\* Pkg.add(PackageSpec(name="DFTK", version=spec)): the manifest holds some
\* release whose major.minor is the one the version specifier names.
PkgResolve(spec, patch) ==
    LET parts == split(spec, ".")
    IN  <<ParseNat(parts[1]), ParseNat(parts[2]), patch>>

\* ---------------------------------------------------------------- check_julia
check_julia(jp, br, ver) ==
    IF ~jp THEN
        \* line 15, outside the try
        Result("-", "ImportError", <<>>, <<"import julia">>, <<>>)
    ELSE IF br = "unsupported" THEN
        \* lines 27-31: warn, fall off the end
        Result("None", "none", <<"PythonJuliaIssues">>,
               <<"import julia", "import Main">>, <<>>)
    ELSE IF ~VersionGE(ver, <<1, 3, 0>>) THEN
        \* lines 23-25: ImportError is not UnsupportedPythonError
        Result("-", "ImportError", <<>>,
               <<"import julia", "import Main", "eval VERSION>=1.3.0">>, <<>>)
    ELSE
        Result("True", "none", <<>>,
               <<"import julia", "import Main", "eval VERSION>=1.3.0">>, <<>>)

\* ---------------------------------------------------------------- dftk_version
dftk_version_manifest(jp, br, ver, pkg, compat) ==
    LET imp == ImportThroughBridge(jp, br, TRUE)
    IN  IF imp # "ok" THEN Result("-", imp, <<>>, <<"import Main">>, <<>>)
        ELSE IF pkg = <<>> THEN
            Result("-", "JuliaError", <<>>,
                   <<"import Main", "eval VERSION>=1.4.0", "Pkg.dependencies">>, <<>>)
        ELSE
            Result("str", "none", <<>>,
                   <<"import Main", "eval VERSION>=1.4.0", "Pkg.dependencies">>,
                   VersionString(pkg))

dftk_version(jp, br, ver, pkg, compat) ==
    LET imp == ImportThroughBridge(jp, br, TRUE)
    IN  IF imp # "ok" THEN Result("-", imp, <<>>, <<"import Main">>, <<>>)
        ELSE IF VersionGE(ver, <<1, 4, 0>>) THEN
            IF pkg = <<>> THEN
                \* [...][end] of an empty array
                Result("-", "JuliaError", <<>>,
                       <<"import Main", "eval VERSION>=1.4.0", "Pkg.dependencies">>, <<>>)
            ELSE
                Result("str", "none", <<>>,
                       <<"import Main", "eval VERSION>=1.4.0", "Pkg.dependencies">>,
                       VersionString(pkg))
        ELSE
            Result("str", "none", <<>>, <<"import Main", "eval VERSION>=1.4.0">>,
                   compat[1] \o <<".", "0">>)

\* ---------------------------------------------------------------- has_compatible_dftk
version_matches_prefix(version, v) == StartsWith(version, v)

\* line 59, the test of one entry
version_matches(version, v) == Take(split(version, "."), 2) = split(v, ".")

has_compatible_dftk_eager(jp, br, ver, pkg, compat) ==
    LET imp == ImportThroughBridge(jp, br, pkg # <<>>)
        dv  == dftk_version(jp, br, ver, pkg, compat)
    IN  IF imp = "ImportError" THEN
            Result("False", "none", <<>>, <<"import DFTK">> \o dv.trace, dv.version)
        ELSE IF imp # "ok" THEN Result("-", imp, <<>>, <<"import DFTK">>, <<>>)
        ELSE IF dv.exc # "none" THEN
            Result("-", dv.exc, <<>>, <<"import DFTK">> \o dv.trace, <<>>)
        ELSE
            Result(PyBool(\E i \in 1..Len(compat) : version_matches(dv.version, compat[i])),
                   "none", <<>>, <<"import DFTK">> \o dv.trace, dv.version)

has_compatible_dftk(jp, br, ver, pkg, compat) ==
    LET imp == ImportThroughBridge(jp, br, pkg # <<>>)
        dv  == dftk_version(jp, br, ver, pkg, compat)
    IN  IF imp = "ImportError" THEN
            Result("False", "none", <<>>, <<"import DFTK">>, <<>>)
        ELSE IF imp # "ok" THEN Result("-", imp, <<>>, <<"import DFTK">>, <<>>)
        ELSE IF dv.exc # "none" THEN
            Result("-", dv.exc, <<>>, <<"import DFTK">> \o dv.trace, <<>>)
        ELSE
            Result(PyBool(\E i \in 1..Len(compat) : version_matches(dv.version, compat[i])),
                   "none", <<>>, <<"import DFTK">> \o dv.trace, dv.version)

\* ---------------------------------------------------------------- install
InstallResult(exc, trace, br, pkg, js) ==
    [exc |-> exc, trace |-> trace, bridge |-> br, dftk |-> pkg, json |-> js]

install_try_import_never(jp, br, pkg, js) ==
    LET d == ImportThroughBridge(jp, br, pkg # <<>>)
    IN  IF d = "UnsupportedPythonError" THEN [exc |-> d, trace |-> <<"import DFTK">>]
        ELSE [exc |-> "ImportError", trace |-> <<"import DFTK">>]

\* lines 67-69: `from julia import DFTK as jl_dftk, JSON`, DFTK first
install_try_import(jp, br, pkg, js) ==
    LET d == ImportThroughBridge(jp, br, pkg # <<>>)
    IN  IF d # "ok" THEN [exc |-> d, trace |-> <<"import DFTK">>]
        ELSE [exc |-> ImportThroughBridge(jp, br, js),
              trace |-> <<"import DFTK", "import JSON">>]

install_pkg_adds_missing_only(br, pkg, js, compat, addJsonOk, addDftkOk, patch) ==
    LET t1 == <<"import Pkg">> \o (IF js THEN <<>> ELSE <<"Pkg.add JSON">>)
        t2 == t1 \o (IF pkg # <<>> THEN <<>> ELSE <<"Pkg.add DFTK">>)
    IN  IF ~js /\ ~addJsonOk THEN InstallResult("JuliaError", t1, br, pkg, js)
        ELSE IF pkg = <<>> /\ ~addDftkOk THEN InstallResult("JuliaError", t2, br, pkg, TRUE)
        ELSE InstallResult("none", t2, br,
                           IF pkg # <<>> THEN pkg
                           ELSE PkgResolve(compat[Len(compat)], patch), TRUE)

\* lines 70-73: Pkg.add("JSON"), then Pkg.add of DFTK at COMPATIBLE_DFTK[-1]
install_pkg_adds(br, pkg, js, compat, addJsonOk, addDftkOk, patch) ==
    IF ~addJsonOk THEN
        InstallResult("JuliaError", <<"import Pkg", "Pkg.add JSON">>, br, pkg, js)
    ELSE IF ~addDftkOk THEN
        InstallResult("JuliaError", <<"import Pkg", "Pkg.add JSON", "Pkg.add DFTK">>,
                      br, pkg, TRUE)
    ELSE
        InstallResult("none", <<"import Pkg", "Pkg.add JSON", "Pkg.add DFTK">>,
                      br, PkgResolve(compat[Len(compat)], patch), TRUE)

\* the body of install() after `import julia` succeeded and julia.install returned
install_packages(jp, br, pkg, js, compat, addJsonOk, addDftkOk, patch) ==
    LET imp  == install_try_import(jp, br, pkg, js)
        adds == install_pkg_adds(br, pkg, js, compat, addJsonOk, addDftkOk, patch)
    IN  IF imp.exc = "ok" THEN InstallResult("none", imp.trace, br, pkg, js)
        ELSE IF imp.exc # "ImportError" THEN InstallResult(imp.exc, imp.trace, br, pkg, js)
        ELSE [adds EXCEPT !.trace = imp.trace \o adds.trace]

install_installer_last(jp, br, pkg, js, compat, installerOk, fixes, addJsonOk, addDftkOk, patch) ==
    IF ~jp THEN InstallResult("ImportError", <<"import julia">>, br, pkg, js)
    ELSE
        LET r == install_packages(jp, br, pkg, js, compat, addJsonOk, addDftkOk, patch)
        IN  IF r.exc # "none" THEN [r EXCEPT !.trace = <<"import julia">> \o r.trace]
            ELSE IF ~installerOk THEN
                [r EXCEPT !.exc = "InstallError",
                          !.trace = <<"import julia">> \o r.trace \o <<"julia.install">>]
            ELSE [r EXCEPT !.trace = <<"import julia">> \o r.trace \o <<"julia.install">>,
                           !.bridge = IF fixes THEN "ok" ELSE br]

\* install(*args, **kwargs), lines 62-73.  installerOk: julia.install returns;
\* fixes: it rebuilt the bridge for this Python; addJsonOk, addDftkOk: the
\* Pkg.add calls return; patch: the release of DFTK the resolver picks.
install(jp, br, pkg, js, compat, installerOk, fixes, addJsonOk, addDftkOk, patch) ==
    IF ~jp THEN InstallResult("ImportError", <<"import julia">>, br, pkg, js)
    ELSE IF ~installerOk THEN
        InstallResult("InstallError", <<"import julia", "julia.install">>, br, pkg, js)
    ELSE
        LET br2 == IF fixes THEN "ok" ELSE br
            r   == install_packages(jp, br2, pkg, js, compat, addJsonOk, addDftkOk, patch)
        IN  [r EXCEPT !.trace = <<"import julia", "julia.install">> \o r.trace]

\* ---------------------------------------------------------------- module level
BaseAll == <<"install", "dftk_version">>

ProbeResult(state, names, warns, cjSeen, hcSeen, trace) ==
    [pc |-> state, all |-> names, warns |-> warns,
     probe |-> [cj |-> cjSeen, hc |-> hcSeen], trace |-> trace]

module_probe_missing_not(cj, hc) ==
    IF cj.exc # "none" THEN
        ProbeResult("crashed", BaseAll, cj.warns, "raised", "notcalled", cj.trace)
    ELSE IF ~Truthy(cj.ret) THEN
        ProbeResult("loaded", BaseAll, cj.warns \o <<"JuliaNotFound">>,
                    cj.ret, "notcalled", cj.trace)
    ELSE IF hc.exc # "none" THEN
        ProbeResult("crashed", BaseAll, cj.warns \o hc.warns, cj.ret, "raised",
                    cj.trace \o hc.trace)
    ELSE IF Truthy(hc.ret) THEN
        ProbeResult("loaded", BaseAll, cj.warns \o hc.warns \o <<"NoCompatibleDFTK">>,
                    cj.ret, hc.ret, cj.trace \o hc.trace)
    ELSE
        ProbeResult("loaded", BaseAll \o <<"DFTK">>, cj.warns \o hc.warns,
                    cj.ret, hc.ret, cj.trace \o hc.trace)

\* lines 76-87.  cj is what check_julia() does here, hc what
\* has_compatible_dftk() does if it is reached.
module_probe(cj, hc) ==
    IF cj.exc # "none" THEN
        ProbeResult("crashed", BaseAll, cj.warns, "raised", "notcalled", cj.trace)
    ELSE IF ~Truthy(cj.ret) THEN
        ProbeResult("loaded", BaseAll, cj.warns \o <<"JuliaNotFound">>,
                    cj.ret, "notcalled", cj.trace)
    ELSE IF hc.exc # "none" THEN
        ProbeResult("crashed", BaseAll, cj.warns \o hc.warns, cj.ret, "raised",
                    cj.trace \o hc.trace)
    ELSE IF ~Truthy(hc.ret) THEN
        ProbeResult("loaded", BaseAll, cj.warns \o hc.warns \o <<"NoCompatibleDFTK">>,
                    cj.ret, hc.ret, cj.trace \o hc.trace)
    ELSE
        ProbeResult("loaded", BaseAll \o <<"DFTK">>, cj.warns \o hc.warns,
                    cj.ret, hc.ret, cj.trace \o hc.trace)

\* ---------------------------------------------------------------- state machine
Op(name, ret, exc, trace, version) ==
    [op |-> name, ret |-> ret, exc |-> exc, trace |-> trace, version |-> version]

NoProbe == [cj |-> "notcalled", hc |-> "notcalled"]

\* the entries a compatibility list is made of, and the lists tried: ordered,
\* non-empty, without repetition
CompatEntries == {MajorMinorString(ma, mi) : ma \in {0}, mi \in Minors}
CompatLists ==
    {l \in UNION {[1..n -> CompatEntries] : n \in 1..MaxCompat} :
        \A i, j \in 1..Len(l) : i # j => l[i] # l[j]}

InitProcess ==
    /\ pc = "start"
    /\ all = <<>>
    /\ warnings = <<>>
    /\ probe = NoProbe
    /\ lastOp = Op("none", "-", "none", <<>>, <<>>)
    /\ nLoads = 1
    /\ nInstalls = 0

InitEnv ==
    /\ juliaPkg \in BOOLEAN
    /\ bridge \in {"ok", "unsupported"}
    /\ VERSION \in JuliaVersions
    /\ dftk \in DftkVersions \cup {<<>>}
    /\ json \in BOOLEAN

\* line 8
Init ==
    /\ InitEnv
    /\ COMPATIBLE_DFTK = <<MajorMinorString(0, 1)>>
    /\ InitProcess

\* the same program with another value of the module global of line 8
InitLists ==
    /\ InitEnv
    /\ COMPATIBLE_DFTK \in CompatLists
    /\ InitProcess

\* `import asedftk`: the module body, lines 76-87
LoadModule ==
    /\ pc = "start"
    /\ LET cj == check_julia(juliaPkg, bridge, VERSION)
           hc == has_compatible_dftk(juliaPkg, bridge, VERSION, dftk, COMPATIBLE_DFTK)
           r  == module_probe(cj, hc)
       IN  /\ pc' = r.pc
           /\ all' = r.all
           /\ warnings' = warnings \o r.warns
           /\ probe' = r.probe
           /\ lastOp' = Op("load", "-", IF r.pc = "crashed" THEN "ImportError" ELSE "none",
                           r.trace, <<>>)
    /\ UNCHANGED <<env, nLoads, nInstalls>>

\* a new interpreter process: module state is gone, the environment stays
Restart ==
    /\ pc \in {"loaded", "crashed"}
    /\ nLoads < MaxLoads
    /\ pc' = "start"
    /\ all' = <<>>
    /\ warnings' = <<>>
    /\ probe' = NoProbe
    /\ lastOp' = Op("none", "-", "none", <<>>, <<>>)
    /\ nLoads' = nLoads + 1
    /\ UNCHANGED <<env, nInstalls>>

\* what one install() call can do here, over the outcomes of the bridge's
\* installer, of the two Pkg.add calls and of the resolver
InstallOutcomes ==
    {install(juliaPkg, bridge, dftk, json, COMPATIBLE_DFTK,
             installerOk, fixes, addJsonOk, addDftkOk, patch) :
        installerOk \in BOOLEAN, fixes \in BOOLEAN, addJsonOk \in BOOLEAN,
        addDftkOk \in BOOLEAN, patch \in 0..MaxPatch}

\* asedftk.install()
Install ==
    /\ pc = "loaded"
    /\ nInstalls < MaxInstalls
    /\ \E r \in InstallOutcomes :
          /\ bridge' = r.bridge
          /\ dftk' = r.dftk
          /\ json' = r.json
          /\ lastOp' = Op("install", IF r.exc = "none" THEN "None" ELSE "-",
                          r.exc, r.trace, <<>>)
    /\ nInstalls' = nInstalls + 1
    /\ UNCHANGED <<juliaPkg, VERSION, COMPATIBLE_DFTK, pc, all, warnings, probe, nLoads>>

\* asedftk.check_julia()
CallCheckJulia ==
    /\ pc = "loaded"
    /\ Len(warnings) < MaxWarnings
    /\ LET r == check_julia(juliaPkg, bridge, VERSION)
       IN  /\ lastOp' = Op("check_julia", r.ret, r.exc, r.trace, <<>>)
           /\ warnings' = warnings \o r.warns
    /\ UNCHANGED <<env, pc, all, probe, nLoads, nInstalls>>

\* asedftk.dftk_version()
CallDftkVersion ==
    /\ pc = "loaded"
    /\ LET r == dftk_version(juliaPkg, bridge, VERSION, dftk, COMPATIBLE_DFTK)
       IN  lastOp' = Op("dftk_version", r.ret, r.exc, r.trace, r.version)
    /\ UNCHANGED <<env, pc, all, warnings, probe, nLoads, nInstalls>>

\* asedftk.has_compatible_dftk()
CallHasCompatibleDftk ==
    /\ pc = "loaded"
    /\ LET r == has_compatible_dftk(juliaPkg, bridge, VERSION, dftk, COMPATIBLE_DFTK)
       IN  lastOp' = Op("has_compatible_dftk", r.ret, r.exc, r.trace, r.version)
    /\ UNCHANGED <<env, pc, all, warnings, probe, nLoads, nInstalls>>

Next ==
    \/ LoadModule
    \/ Restart
    \/ Install
    \/ CallCheckJulia
    \/ CallDftkVersion
    \/ CallHasCompatibleDftk

Spec == Init /\ [][Next]_vars

SpecLists == InitLists /\ [][Next]_vars

\* ---------------------------------------------------------------- properties
InSeq(x, seq) == \E i \in 1..Len(seq) : seq[i] = x

Count(x, seq) == Cardinality({i \in 1..Len(seq) : seq[i] = x})

AdapterExposed == InSeq("DFTK", all)

DftkImportable == juliaPkg /\ bridge = "ok" /\ dftk # <<>>

QueriedVersion(trace) ==
    InSeq("eval VERSION>=1.4.0", trace) \/ InSeq("Pkg.dependencies", trace)

AddedPackages(trace) == InSeq("Pkg.add JSON", trace) \/ InSeq("Pkg.add DFTK", trace)

\* an install() call is the step being taken
InstallStep == nInstalls' = nInstalls + 1

\* C1: after a module load that finished, DFTK is in __all__ exactly when
\* check_julia() returned a true value and has_compatible_dftk() returned True
\* in that load; otherwise __all__ is [install, dftk_version].
C1_AdapterIffBothChecks ==
    pc = "loaded" =>
        /\ AdapterExposed <=> (probe.cj = "True" /\ probe.hc = "True")
        /\ AdapterExposed => all = <<"install", "dftk_version", "DFTK">>
        /\ ~AdapterExposed => all = <<"install", "dftk_version">>

C1_Witness ==
    /\ pc = "loaded" /\ lastOp.op = "load"
    /\ AdapterExposed /\ probe.cj = "True" /\ probe.hc = "True"

\* the (major, minor) the version detection reports for the installed DFTK:
\* the manifest's from Julia 1.4.0 on, the default 0.1.0 before
DetectedMajorMinor ==
    IF VersionGE(VERSION, <<1, 4, 0>>) THEN <<dftk[1], dftk[2]>> ELSE <<0, 1>>

\* C2: with DFTK importable and COMPATIBLE_DFTK = ["0.1"], has_compatible_dftk()
\* returns True exactly when the detected version has major 0 and minor 1,
\* whatever the patch; 0.2.p, 1.1.p and 0.10.p are rejected.
C2_MajorMinorMatch ==
    /\ (lastOp.op = "has_compatible_dftk" /\ DftkImportable) =>
           /\ lastOp.exc = "none"
           /\ lastOp.ret = PyBool(DetectedMajorMinor = <<0, 1>>)
    /\ (lastOp.op = "load" /\ pc = "loaded" /\ probe.hc # "notcalled") =>
           probe.hc = PyBool(dftk # <<>> /\ DetectedMajorMinor = <<0, 1>>)

C2_Witness ==
    /\ lastOp.op = "has_compatible_dftk" /\ DftkImportable
    /\ VersionGE(VERSION, <<1, 4, 0>>)
    /\ dftk = <<0, 10, 0>>
    /\ lastOp.ret = "False"

\* C3: a load with the bridge not loadable (julia package missing, or
\* UnsupportedPythonError while loading Main) leaves DFTK out of __all__ and
\* emits exactly one warning.
C3_OneWarningWhenBridgeFails ==
    (lastOp.op = "load" /\ (~juliaPkg \/ bridge = "unsupported")) =>
        /\ ~AdapterExposed
        /\ Len(warnings) = 1

\* C4: with the bridge loaded and new enough but DFTK not importable,
\* has_compatible_dftk() returns False without a version query, DFTK is not
\* exposed and the load's only warning is the no-compatible-DFTK one; the two
\* module-level warnings never occur together.
C4_PackageMissing ==
    /\ (lastOp.op = "load" /\ juliaPkg /\ bridge = "ok"
            /\ VersionGE(VERSION, <<1, 3, 0>>) /\ dftk = <<>>) =>
           /\ pc = "loaded"
           /\ probe.hc = "False"
           /\ ~QueriedVersion(lastOp.trace)
           /\ ~AdapterExposed
           /\ warnings = <<"NoCompatibleDFTK">>
    /\ (lastOp.op = "has_compatible_dftk" /\ juliaPkg /\ bridge = "ok" /\ dftk = <<>>) =>
           /\ lastOp.ret = "False"
           /\ ~QueriedVersion(lastOp.trace)
    /\ ~(InSeq("JuliaNotFound", warnings) /\ InSeq("NoCompatibleDFTK", warnings))

C4_Witness ==
    /\ lastOp.op = "load" /\ juliaPkg /\ bridge = "ok"
    /\ VersionGE(VERSION, <<1, 3, 0>>) /\ dftk = <<>>
    /\ warnings = <<"NoCompatibleDFTK">>

\* a failed precondition of the module load
FailedPrecondition ==
    \/ ~juliaPkg
    \/ bridge = "unsupported"
    \/ ~VersionGE(VERSION, <<1, 3, 0>>)
    \/ dftk = <<>>
    \/ ~Truthy(has_compatible_dftk(juliaPkg, bridge, VERSION, dftk, COMPATIBLE_DFTK).ret)

\* C5: a load with a failed precondition runs to completion, emits a warning
\* and leaves DFTK out; no exception leaves the module body.
C5_NoCrashAtLoad ==
    (lastOp.op = "load" /\ FailedPrecondition) =>
        /\ pc = "loaded"
        /\ lastOp.exc = "none"
        /\ Len(warnings) >= 1
        /\ ~AdapterExposed

\* C6: install() with DFTK and JSON both importable performs no Pkg.add and
\* leaves the installed packages as they were, call after call.
C6_InstallIdempotent ==
    [][(InstallStep /\ juliaPkg /\ bridge = "ok" /\ dftk # <<>> /\ json) =>
          /\ ~AddedPackages(lastOp'.trace)
          /\ dftk' = dftk /\ json' = json /\ bridge' = bridge]_vars

C6_Witness ==
    /\ lastOp.op = "install" /\ lastOp.exc = "none" /\ nInstalls = 2
    /\ lastOp.trace = <<"import julia", "julia.install", "import DFTK", "import JSON">>
    /\ dftk # <<>> /\ json

\* C7: after install() returns without error JSON is installed and DFTK is
\* installed at the major.minor of the last entry of COMPATIBLE_DFTK, so that
\* has_compatible_dftk() returns True.
C7_InstallEnsuresCompatible ==
    (lastOp.op = "install" /\ lastOp.exc = "none") =>
        /\ json
        /\ dftk # <<>>
        /\ MajorMinorString(dftk[1], dftk[2]) = COMPATIBLE_DFTK[Len(COMPATIBLE_DFTK)]
        /\ has_compatible_dftk(juliaPkg, bridge, VERSION, dftk, COMPATIBLE_DFTK).ret = "True"

\* C8 as stated: install() passes a package to Pkg.add only if that package
\* was not importable.
C8_AddsOnlyTheMissingPackage ==
    [][InstallStep =>
          /\ InSeq("Pkg.add JSON", lastOp'.trace) => ~json
          /\ InSeq("Pkg.add DFTK", lastOp'.trace) => dftk = <<>>]_vars

\* C8 as amended: install() calls Pkg.add only when DFTK or JSON is not
\* importable, and then for both: JSON first, and DFTK once that add returned,
\* whether or not one of the two was importable already.
C8_AddsBothWhenOneIsMissing ==
    [][InstallStep =>
          /\ AddedPackages(lastOp'.trace) => (dftk = <<>> \/ ~json)
          /\ InSeq("Pkg.add DFTK", lastOp'.trace) => InSeq("Pkg.add JSON", lastOp'.trace)
          /\ (lastOp'.exc = "none" /\ (dftk = <<>> \/ ~json)) =>
                 lastOp'.trace = <<"import julia", "julia.install">>
                     \o (IF dftk = <<>> THEN <<"import DFTK">>
                                        ELSE <<"import DFTK", "import JSON">>)
                     \o <<"import Pkg", "Pkg.add JSON", "Pkg.add DFTK">>]_vars

C8_Witness ==
    /\ lastOp.op = "install" /\ lastOp.exc = "none"
    /\ lastOp.trace = <<"import julia", "julia.install", "import DFTK", "import JSON",
                        "import Pkg", "Pkg.add JSON", "Pkg.add DFTK">>

\* C9: a failure of julia.install leaves install() as an exception, with no
\* importability check and no Pkg.add in that call; julia.install is called
\* exactly once per install(), and before any importability check or Pkg.add.
C9_InstallerFirstAndPropagates ==
    lastOp.op = "install" =>
        /\ lastOp.exc = "InstallError" =>
               /\ ~AddedPackages(lastOp.trace)
               /\ ~InSeq("import DFTK", lastOp.trace)
               /\ lastOp.trace = <<"import julia", "julia.install">>
        /\ Count("julia.install", lastOp.trace) = 1
        /\ \A i \in 1..Len(lastOp.trace) :
               lastOp.trace[i] \in {"import DFTK", "import JSON", "Pkg.add JSON", "Pkg.add DFTK"}
                   => \E j \in 1..(i - 1) : lastOp.trace[j] = "julia.install"

C9_Witness ==
    /\ lastOp.op = "install" /\ lastOp.exc = "InstallError"
    /\ (dftk = <<>> \/ ~json)

\* C10: with Julia older than 1.4.0 dftk_version() returns COMPATIBLE_DFTK[0]
\* followed by ".0" without reading the manifest, and has_compatible_dftk()
\* accepts it for every list of major.minor entries, whatever DFTK is installed.
C10_DefaultVersionAccepted ==
    /\ (lastOp.op = "dftk_version" /\ lastOp.exc = "none" /\ ~VersionGE(VERSION, <<1, 4, 0>>)) =>
           /\ ~InSeq("Pkg.dependencies", lastOp.trace)
           /\ lastOp.version = COMPATIBLE_DFTK[1] \o <<".", "0">>
    /\ (lastOp.op = "has_compatible_dftk" /\ DftkImportable /\ ~VersionGE(VERSION, <<1, 4, 0>>)) =>
           /\ lastOp.ret = "True"
           /\ ~InSeq("Pkg.dependencies", lastOp.trace)

C10_Witness ==
    /\ lastOp.op = "has_compatible_dftk" /\ DftkImportable
    /\ ~VersionGE(VERSION, <<1, 4, 0>>)
    /\ dftk = <<1, 10, 1>>
    /\ Len(COMPATIBLE_DFTK) = 2
    /\ lastOp.ret = "True"

====
